---------------------------- MODULE Spec2Model ----------------------------
(***************************************************************************)
(* The quota availability engine of pretix, src/pretix/base/models/items.py *)
(* (class Quota): the calculator Quota._availability, the persisted memo    *)
(* of its verdict (the cached_availability_* columns), the call-scoped      *)
(* cache handed in as _cache, and the event-wide cache that Quota.save and  *)
(* Quota.availability invalidate.                                           *)
(*                                                                         *)
(* One quota row lives in the database (db).  Every worker holds its own   *)
(* loaded copy of the row (obj[w], the Python object `self`); a copy is    *)
(* refreshed only by Load.  A call of availability() is two steps of the   *)
(* calling worker, so that the calls of different workers interleave       *)
(* between the computation (lines 1007-1018) and the write (lines          *)
(* 1019-1036); a finished call stays visible in call[w] until Return.      *)
(* Demand is kept as the five aggregated counts the count_* queries        *)
(* return; a cart hold or voucher that expires is a change of its count.   *)
(* Demand and the wall clock move only between calls.                      *)
(***************************************************************************)
EXTENDS Integers, Sequences, FiniteSets, TLC

VARIABLES
    db,        \* the persisted quota row
    demand,    \* what the five count queries return now
    clock,     \* django.utils.timezone.now(), in seconds
    evcache,   \* keys present in event.cache
    obj,       \* obj[w]: worker w's loaded Quota instance
    ccache,    \* ccache[w]: the dict worker w passes as _cache
    call,      \* call[w]: the call worker w is in, or Idle
    last       \* last[w]: the previous returned call of w, while comparable

vars == <<db, demand, clock, evcache, obj, ccache, call, last>>

----------------------------------------------------------------------------
(* Bounds of the model *)

MaxSize == 1
MaxCount == 1
MaxTicks == 2
CalcMaxSize == 3
CalcMaxCount == 2

\* the largest remaining count and the largest number of quotas of one item
\* where check_quotas is examined alone
MaxRemaining == 2
MaxQuotas == 3

\* the largest number of order lines, cart holds and waiting-list entries,
\* and of vouchers, where the count queries are examined on records
MaxPositions == 1
MaxVouchers == 1
\* a voucher can be used, and has been used, at most this many times
MaxUsages == 1

----------------------------------------------------------------------------
(* Constants of the program *)

None == -1

AVAILABILITY_GONE == 0
AVAILABILITY_ORDERED == 10
AVAILABILITY_RESERVED == 20
AVAILABILITY_OK == 100

StaleWindow == 120

\* sys.maxsize, the number that stands for "no limit" where verdicts are
\* compared; the largest integer of the model checker takes its place
sys_maxsize == 2147483647

TickLen == StaleWindow \div 2

Workers == {1, 2}

Sizes == {None} \cup (0..MaxSize)

Times == {i * TickLen : i \in 0..MaxTicks}

Counts == 0..MaxCount

DemandKinds == {"paid", "pending", "blocking", "cart", "waitlist"}

CacheKeys == {"item_quota_cache", "other"}

----------------------------------------------------------------------------
(* The demand-count queries *)

count_paid_orders(d) == d.paid

count_pending_orders(d) == d.pending

count_blocking_vouchers(d) == d.blocking

count_in_cart(d) == d.cart

count_waiting_list_pending(d) == d.waitlist

----------------------------------------------------------------------------
(* Quota._availability: the calculator.  It returns the verdict, the       *)
(* queries it issued, in order, and the object with the side effect of     *)
(* line 1045.                                                              *)

ExhaustedBelowZero(size_left) == size_left < 0

\* a variant that stops only when nothing is left exactly
ExhaustedExactly(size_left) == size_left = 0

Exhausted(size_left) == size_left <= 0

\* a variant that counts the waiting list whatever the flag
WaitlistStepAlways(count_waitinglist) == TRUE

\* a variant that reads the flag the wrong way round
WaitlistStepInverted(count_waitinglist) == ~count_waitinglist

WaitlistStep(count_waitinglist) == count_waitinglist

\* a variant that counts the paid orders before it looks at the size
UnlimitedAfterPaidQuery(self, d) ==
    [res |-> <<AVAILABILITY_OK, None>>, queries |-> <<"count_paid_orders">>,
     self |-> [self EXCEPT !.cached_availability_paid_orders = count_paid_orders(d)]]

\* lines 1040-1042
Unlimited(self, d) ==
    [res |-> <<AVAILABILITY_OK, None>>, queries |-> <<>>, self |-> self]

_availability(self, d, count_waitinglist) ==
    LET paid_orders == count_paid_orders(d)
        self1 == [self EXCEPT !.cached_availability_paid_orders = paid_orders]
        l1 == self.size - paid_orders
        l2 == l1 - count_pending_orders(d)
        l3 == l2 - count_blocking_vouchers(d)
        l4 == l3 - count_in_cart(d)
        l5 == l4 - count_waiting_list_pending(d)
        q1 == <<"count_paid_orders">>
        q2 == Append(q1, "count_pending_orders")
        q3 == Append(q2, "count_blocking_vouchers")
        q4 == Append(q3, "count_in_cart")
        q5 == Append(q4, "count_waiting_list_pending")
    IN  IF self.size = None
        THEN Unlimited(self, d)
        ELSE IF Exhausted(l1)
        THEN [res |-> <<AVAILABILITY_GONE, 0>>, queries |-> q1, self |-> self1]
        ELSE IF Exhausted(l2)
        THEN [res |-> <<AVAILABILITY_ORDERED, 0>>, queries |-> q2, self |-> self1]
        ELSE IF Exhausted(l3)
        THEN [res |-> <<AVAILABILITY_RESERVED, 0>>, queries |-> q3, self |-> self1]
        ELSE IF Exhausted(l4)
        THEN [res |-> <<AVAILABILITY_RESERVED, 0>>, queries |-> q4, self |-> self1]
        ELSE IF WaitlistStep(count_waitinglist)
        THEN IF Exhausted(l5)
             THEN [res |-> <<AVAILABILITY_RESERVED, 0>>, queries |-> q5, self |-> self1]
             ELSE [res |-> <<AVAILABILITY_OK, l5>>, queries |-> q5, self |-> self1]
        ELSE [res |-> <<AVAILABILITY_OK, l4>>, queries |-> q4, self |-> self1]

----------------------------------------------------------------------------
(* The persisted memo *)

NoVerdict == <<None, None>>

NewQuota(size) ==
    [size |-> size,
     cached_availability_state |-> None,
     cached_availability_number |-> None,
     cached_availability_paid_orders |-> None,
     cached_availability_time |-> None]

\* a variant whose window includes its end
cache_is_hot_inclusive(self, now_dt) ==
    /\ self.cached_availability_time # None
    /\ now_dt - self.cached_availability_time <= StaleWindow

cache_is_hot(self, now_dt) ==
    /\ self.cached_availability_time # None
    /\ now_dt - self.cached_availability_time < StaleWindow

StoredVerdict(self) ==
    <<self.cached_availability_state, self.cached_availability_number>>

\* a variant that answers from the stored verdict however old it is
ServeStoredOfAnyAge(self, allow_cache, count_waitinglist, now) ==
    allow_cache /\ self.cached_availability_time # None /\ count_waitinglist

\* line 1007: the call is answered from the object's stored verdict
ServeStored(self, allow_cache, count_waitinglist, now) ==
    allow_cache /\ cache_is_hot(self, now) /\ count_waitinglist

\* a variant that stores the verdict of either flag
MayPersistAnyFlag(self, count_waitinglist, now_dt) == ~cache_is_hot(self, now_dt)

\* a variant that stores whenever the waitlist is counted
MayPersistWhileHot(self, count_waitinglist, now_dt) == count_waitinglist

\* line 1019: the computed verdict is stored
MayPersist(self, count_waitinglist, now_dt) ==
    count_waitinglist /\ ~cache_is_hot(self, now_dt)

\* a variant that forgets to store the remaining count
MemoizeWithoutNumber(self, res, now_dt, d) ==
    [self EXCEPT !.cached_availability_state = res[1],
                 !.cached_availability_time = now_dt,
                 !.cached_availability_paid_orders =
                     IF self.size = None THEN count_paid_orders(d) ELSE @]

\* lines 1020-1024
Memoize(self, res, now_dt, d) ==
    [self EXCEPT !.cached_availability_state = res[1],
                 !.cached_availability_number = res[2],
                 !.cached_availability_time = now_dt,
                 !.cached_availability_paid_orders =
                     IF self.size = None THEN count_paid_orders(d) ELSE @]

\* a variant whose update_fields leaves out cached_availability_paid_orders
SaveUpdateFieldsWithoutPaid(row, self) ==
    [row EXCEPT !.cached_availability_state = self.cached_availability_state,
                !.cached_availability_number = self.cached_availability_number,
                !.cached_availability_time = self.cached_availability_time]

\* lines 1025-1031: save(update_fields=[...]) writes the four memo columns
SaveUpdateFields(row, self) ==
    [row EXCEPT !.cached_availability_state = self.cached_availability_state,
                !.cached_availability_number = self.cached_availability_number,
                !.cached_availability_time = self.cached_availability_time,
                !.cached_availability_paid_orders = self.cached_availability_paid_orders]

\* line 983: save() without update_fields writes every column of the object
SaveAll(row, self) == self

\* a variant that leaves the timestamp in place
ClearMemoKeepTime(self) ==
    [self EXCEPT !.cached_availability_number = None,
                 !.cached_availability_state = None]

\* lines 988-990
ClearMemo(self) ==
    [self EXCEPT !.cached_availability_time = None,
                 !.cached_availability_number = None,
                 !.cached_availability_state = None]

----------------------------------------------------------------------------
(* The call-scoped cache: a dict that holds this quota's verdict under its *)
(* pk (has, val), the verdicts of other quotas of the operation under      *)
(* theirs (others), and the flag under '_count_waitinglist' (cw, True when *)
(* the key is absent).                                                     *)

EmptyCache == [has |-> FALSE, val |-> NoVerdict, cw |-> TRUE, others |-> FALSE]

\* `if _cache`: a dict with any key is true
NonEmpty(c) == c.has \/ c.others

\* a variant that records the new flag instead of emptying the dict
CacheAfterFlagCheckKeepingEntries(c, supplied, count_waitinglist) ==
    IF supplied /\ NonEmpty(c) THEN [c EXCEPT !.cw = count_waitinglist] ELSE c

\* lines 1010-1011
CacheAfterFlagCheck(c, supplied, count_waitinglist) ==
    IF supplied /\ NonEmpty(c) /\ count_waitinglist # c.cw THEN EmptyCache ELSE c

\* line 1013
CacheHit(c, supplied) == supplied /\ c.has

\* a variant that leaves out line 1036
CacheStoreWithoutFlag(c, supplied, res, count_waitinglist) ==
    IF supplied THEN [c EXCEPT !.has = TRUE, !.val = res] ELSE c

\* lines 1033-1036
CacheStore(c, supplied, res, count_waitinglist) ==
    IF supplied
    THEN [c EXCEPT !.has = TRUE, !.val = res, !.cw = count_waitinglist]
    ELSE c

----------------------------------------------------------------------------
(* event.cache: the set of keys that hold a value *)

\* a variant that deletes nothing
CacheDeleteNothing(ev, key) == ev

\* a variant that removes the quota entry only
CacheClearItemQuotaOnly(ev) == ev \ {"item_quota_cache"}

\* lines 979 and 985: event.cache.clear()
CacheClear(ev) == {}

\* line 1018: event.cache.delete(key)
CacheDelete(ev, key) == ev \ {key}

----------------------------------------------------------------------------
Idle == [pc |-> "idle"]

NoLast == [valid |-> FALSE]

AllIdle == \A w \in Workers : call[w].pc = "idle"

Init ==
    /\ \E s \in Sizes : db = NewQuota(s) /\ obj = [w \in Workers |-> NewQuota(s)]
    /\ demand = [k \in DemandKinds |-> 0]
    /\ clock = 0
    /\ evcache = {}
    /\ ccache = [w \in Workers |-> EmptyCache]
    /\ call = [w \in Workers |-> Idle]
    /\ last = [w \in Workers |-> NoLast]

----------------------------------------------------------------------------
(* Quota.availability, lines 1007-1018: the answer from the stored verdict, *)
(* the answer from the call-scoped cache, or the computation.  `self` is   *)
(* the object on entry; now_arg is the caller's now_dt, None when absent.  *)

Enter(w, op, self, now_arg, count_waitinglist, supplied, allow_cache) ==
    LET c1 == CacheAfterFlagCheck(ccache[w], supplied, count_waitinglist)
        now_dt == IF now_arg = None THEN clock ELSE now_arg
        r == _availability(self, demand, count_waitinglist)
        base == [op |-> op, now_arg |-> now_arg, count_waitinglist |-> count_waitinglist,
                 allow_cache |-> allow_cache, supplied |-> supplied,
                 at |-> clock, entry |-> self, row |-> db, centry |-> ccache[w],
                 ev |-> evcache]
    IN  IF ServeStored(self, allow_cache, count_waitinglist, clock)
        THEN /\ call' = [call EXCEPT ![w] = base @@
                            [pc |-> "done", path |-> "stored", now_dt |-> None,
                             ret |-> StoredVerdict(self), queries |-> <<>>,
                             wrote |-> FALSE]]
             /\ obj' = [obj EXCEPT ![w] = self]
             /\ UNCHANGED <<ccache, evcache>>
        ELSE IF CacheHit(c1, supplied)
        THEN /\ call' = [call EXCEPT ![w] = base @@
                            [pc |-> "done", path |-> "call_cache", now_dt |-> None,
                             ret |-> c1.val, queries |-> <<>>, wrote |-> FALSE]]
             /\ obj' = [obj EXCEPT ![w] = self]
             /\ ccache' = [ccache EXCEPT ![w] = c1]
             /\ UNCHANGED evcache
        ELSE /\ call' = [call EXCEPT ![w] = base @@
                            [pc |-> "computed", path |-> "computed", now_dt |-> now_dt,
                             ret |-> r.res, queries |-> r.queries, wrote |-> FALSE]]
             /\ obj' = [obj EXCEPT ![w] = r.self]
             /\ ccache' = [ccache EXCEPT ![w] = c1]
             /\ evcache' = CacheDelete(evcache, "item_quota_cache")

\* Quota.availability(now_dt, count_waitinglist, _cache, allow_cache)
Availability(w, now_arg, count_waitinglist, supplied, allow_cache) ==
    /\ call[w].pc = "idle"
    /\ Enter(w, "availability", obj[w], now_arg, count_waitinglist, supplied, allow_cache)
    /\ UNCHANGED <<db, demand, clock, last>>

\* Quota.rebuild_cache(now_dt), lines 987-991
RebuildCache(w, now_arg) ==
    /\ call[w].pc = "idle"
    /\ Enter(w, "rebuild_cache", ClearMemo(obj[w]), now_arg, TRUE, FALSE, FALSE)
    /\ UNCHANGED <<db, demand, clock, last>>

\* Quota.availability, lines 1019-1036: the write and the return
Finish(w) ==
    LET c == call[w]
        persist == MayPersist(obj[w], c.count_waitinglist, c.now_dt)
        self1 == Memoize(obj[w], c.ret, c.now_dt, demand)
        paidq == IF persist /\ obj[w].size = None
                 THEN <<"count_paid_orders">> ELSE <<>>
    IN  /\ c.pc = "computed"
        /\ IF persist
           THEN /\ obj' = [obj EXCEPT ![w] = self1]
                /\ db' = SaveUpdateFields(db, self1)
           ELSE UNCHANGED <<obj, db>>
        /\ ccache' = [ccache EXCEPT
                         ![w] = CacheStore(@, c.supplied, c.ret, c.count_waitinglist)]
        /\ call' = [call EXCEPT ![w] = [c EXCEPT !.pc = "done", !.wrote = persist,
                                                 !.row = db,
                                                 !.queries = @ \o paidq]]
        /\ UNCHANGED <<demand, clock, evcache, last>>

\* the object after the queries before the k-th have answered: line 1045 has
\* run when the paid-orders query was not the failing one
AfterAnswered(self, d, k) ==
    IF k > 1 THEN [self EXCEPT !.cached_availability_paid_orders = count_paid_orders(d)]
    ELSE self

\* Quota.availability, lines 1007-1016, when the k-th query of _availability
\* raises: the exception leaves availability() at line 1016
QueryFails(w, count_waitinglist, supplied, allow_cache, k) ==
    LET self == obj[w]
        c1 == CacheAfterFlagCheck(ccache[w], supplied, count_waitinglist)
        r == _availability(self, demand, count_waitinglist)
    IN  /\ call[w].pc = "idle"
        /\ ~ServeStored(self, allow_cache, count_waitinglist, clock)
        /\ ~CacheHit(c1, supplied)
        /\ k \in 1..Len(r.queries)
        /\ call' = [call EXCEPT ![w] =
                       [op |-> "availability", now_arg |-> None,
                        count_waitinglist |-> count_waitinglist,
                        allow_cache |-> allow_cache, supplied |-> supplied,
                        at |-> clock, entry |-> self, row |-> db,
                        centry |-> ccache[w], ev |-> evcache,
                        pc |-> "raised", path |-> "computed", now_dt |-> clock,
                        ret |-> NoVerdict, queries |-> SubSeq(r.queries, 1, k),
                        wrote |-> FALSE]]
        /\ obj' = [obj EXCEPT ![w] = AfterAnswered(self, demand, k)]
        /\ ccache' = [ccache EXCEPT ![w] = c1]
        /\ UNCHANGED <<db, demand, clock, evcache, last>>

\* Quota.availability, lines 1019-1024, when count_paid_orders() of line 1024
\* raises: lines 1020-1022 have assigned the object, save() is not reached
PaidQueryFails(w) ==
    LET c == call[w]
    IN  /\ c.pc = "computed"
        /\ MayPersist(obj[w], c.count_waitinglist, c.now_dt)
        /\ obj[w].size = None
        /\ obj' = [obj EXCEPT ![w] = [@ EXCEPT !.cached_availability_state = c.ret[1],
                                               !.cached_availability_number = c.ret[2],
                                               !.cached_availability_time = c.now_dt]]
        /\ call' = [call EXCEPT ![w] = [c EXCEPT !.pc = "raised", !.ret = NoVerdict,
                                                 !.queries = Append(@, "count_paid_orders")]]
        /\ UNCHANGED <<db, demand, clock, evcache, ccache, last>>

\* the caller handles the exception
Catch(w) ==
    /\ call[w].pc = "raised"
    /\ call' = [call EXCEPT ![w] = Idle]
    /\ UNCHANGED <<db, demand, clock, evcache, obj, ccache, last>>

\* the caller takes the result
Return(w) ==
    /\ call[w].pc = "done"
    /\ call' = [call EXCEPT ![w] = Idle]
    /\ UNCHANGED <<db, demand, clock, evcache, obj, ccache, last>>

\* the caller takes the result and keeps it to compare the next call with
ReturnRemember(w) ==
    /\ call[w].pc = "done"
    /\ last' = [last EXCEPT ![w] =
                   [valid |-> TRUE, ret |-> call[w].ret, path |-> call[w].path,
                    count_waitinglist |-> call[w].count_waitinglist,
                    wrote |-> call[w].wrote, at |-> call[w].at,
                    queried |-> call[w].queries # <<>>, op |-> call[w].op]]
    /\ call' = [call EXCEPT ![w] = Idle]
    /\ UNCHANGED <<db, demand, clock, evcache, obj, ccache>>

\* Quota.objects.get(pk=...): the worker loads the row afresh
Load(w) ==
    /\ call[w].pc = "idle"
    /\ obj[w] # db
    /\ obj' = [obj EXCEPT ![w] = db]
    /\ last' = [last EXCEPT ![w] = NoLast]
    /\ UNCHANGED <<db, demand, clock, evcache, ccache, call>>

\* the operator edits the capacity and saves: Quota.save, lines 981-985
Edit(w, size) ==
    /\ call[w].pc = "idle"
    /\ size # obj[w].size
    /\ obj' = [obj EXCEPT ![w].size = size]
    /\ db' = SaveAll(db, obj'[w])
    /\ evcache' = CacheClear(evcache)
    /\ last' = [v \in Workers |-> NoLast]
    /\ UNCHANGED <<demand, clock, ccache, call>>

\* the row after Quota.delete(): none
NoRow == [pk |-> None]

\* the record of a save() or delete() that has returned
Written(op, clear_cache) ==
    [pc |-> "done", op |-> op, path |-> "write", clear_cache |-> clear_cache,
     ev |-> evcache, row |-> db]

\* Quota.save(clear_cache), lines 981-985, of an object whose capacity the
\* operator has set, or of a new quota
Save(w, size, clear_cache) ==
    /\ call[w].pc = "idle"
    /\ size # obj[w].size \/ db = NoRow
    /\ obj' = [obj EXCEPT ![w].size = size]
    /\ db' = SaveAll(db, obj'[w])
    /\ evcache' = IF clear_cache THEN CacheClear(evcache) ELSE evcache
    /\ call' = [call EXCEPT ![w] = Written("save", clear_cache)]
    /\ UNCHANGED <<demand, clock, ccache, last>>

\* Quota.delete(), lines 976-979
Delete(w) ==
    /\ call[w].pc = "idle"
    /\ db # NoRow
    /\ db' = NoRow
    /\ evcache' = CacheClear(evcache)
    /\ call' = [call EXCEPT ![w] = Written("delete", TRUE)]
    /\ UNCHANGED <<demand, clock, obj, ccache, last>>

\* availability(count_waitinglist, _cache) of another quota of the event,
\* computed with the same dict: lines 1010-1011, 1018 and 1033-1036
OtherQuota(w, count_waitinglist) ==
    /\ call[w].pc = "idle"
    /\ ccache' = [ccache EXCEPT
                     ![w] = [CacheAfterFlagCheck(@, TRUE, count_waitinglist)
                                EXCEPT !.others = TRUE, !.cw = count_waitinglist]]
    /\ ccache'[w] # ccache[w]
    /\ evcache' = CacheDelete(evcache, "item_quota_cache")
    /\ UNCHANGED <<db, demand, clock, obj, call, last>>

\* the caller starts a new logical operation with a fresh dict
NewOperation(w) ==
    /\ call[w].pc = "idle"
    /\ ccache[w] # EmptyCache
    /\ ccache' = [ccache EXCEPT ![w] = EmptyCache]
    /\ UNCHANGED <<db, demand, clock, evcache, obj, call, last>>

TotalDemand(d) == d.paid + d.pending + d.blocking + d.cart + d.waitlist

\* an order, cart hold, voucher or waiting-list entry appears or goes away
DemandChange(k, n) ==
    /\ AllIdle
    /\ n # demand[k]
    /\ demand' = [demand EXCEPT ![k] = n]
    /\ TotalDemand(demand') <= MaxCount
    /\ last' = [v \in Workers |-> NoLast]
    /\ UNCHANGED <<db, clock, evcache, obj, ccache, call>>

Tick ==
    /\ AllIdle
    /\ clock + TickLen \in Times
    /\ clock' = clock + TickLen
    /\ UNCHANGED <<db, demand, evcache, obj, ccache, call, last>>

\* some view stores a derived value in event.cache
CachePopulate(key) ==
    /\ AllIdle
    /\ key \notin evcache
    /\ evcache' = evcache \cup {key}
    /\ UNCHANGED <<db, demand, clock, obj, ccache, call, last>>

NowArgs == {None} \cup Times

Environment ==
    \/ \E k \in DemandKinds, n \in Counts : DemandChange(k, n)
    \/ Tick

\* purchases are paid and waiting-list entries come and go
PaidAndWaitlist ==
    \/ \E k \in {"paid", "waitlist"}, n \in Counts : DemandChange(k, n)
    \/ Tick

\* one worker, calls without a call-scoped cache, at any caller-given time,
\* with rebuilds
Next ==
    \/ \E t \in NowArgs, cw \in BOOLEAN, a \in BOOLEAN : Availability(1, t, cw, FALSE, a)
    \/ \E t \in NowArgs : RebuildCache(1, t)
    \/ Finish(1)
    \/ Return(1)
    \/ Load(1)
    \/ Environment

Spec == Init /\ [][Next]_vars

\* one worker, calls at the wall-clock time, with capacity edits
NextEdit ==
    \/ \E cw \in BOOLEAN, a \in BOOLEAN : Availability(1, None, cw, FALSE, a)
    \/ Finish(1)
    \/ Return(1)
    \/ \E s \in Sizes : Edit(1, s)
    \/ Environment

SpecEdit == Init /\ [][NextEdit]_vars

\* one worker, calls with and without a call-scoped cache, and rebuilds
NextCache ==
    \/ \E cw \in BOOLEAN, s \in BOOLEAN, a \in BOOLEAN : Availability(1, None, cw, s, a)
    \/ RebuildCache(1, None)
    \/ Finish(1)
    \/ Return(1)
    \/ NewOperation(1)
    \/ \E cw \in BOOLEAN : OtherQuota(1, cw)
    \/ Environment

SpecCache == Init /\ [][NextCache]_vars

\* one worker that rebuilds and calls, with and without a call-scoped cache,
\* and compares each returned verdict with the call before
NextRebuild ==
    \/ \E cw \in BOOLEAN, s \in BOOLEAN, a \in BOOLEAN : Availability(1, None, cw, s, a)
    \/ RebuildCache(1, None)
    \/ Finish(1)
    \/ ReturnRemember(1)
    \/ PaidAndWaitlist

SpecRebuild == Init /\ [][NextRebuild]_vars

\* one worker whose returned verdicts are compared from one call to the next
NextTwice ==
    \/ \E cw \in BOOLEAN, a \in BOOLEAN : Availability(1, None, cw, FALSE, a)
    \/ Finish(1)
    \/ ReturnRemember(1)
    \/ Environment

SpecTwice == Init /\ [][NextTwice]_vars

\* two workers, each with its own copy of the row, whose calls all run the
\* calculator (allow_cache=False, the default)
NextConc ==
    \/ \E w \in Workers, cw \in BOOLEAN : Availability(w, None, cw, FALSE, FALSE)
    \/ \E w \in Workers : Finish(w)
    \/ \E w \in Workers : Return(w)
    \/ \E w \in Workers : Load(w)
    \/ PaidAndWaitlist

SpecConc == Init /\ [][NextConc]_vars

\* one worker, calls with and without a call-scoped cache, some of them
\* failing in a query, while views fill event.cache
NextFrame ==
    \/ \E cw \in BOOLEAN, s \in BOOLEAN, a \in BOOLEAN : Availability(1, None, cw, s, a)
    \/ Finish(1)
    \/ Return(1)
    \/ \E cw \in BOOLEAN, s \in BOOLEAN, a \in BOOLEAN, k \in 1..5 :
           QueryFails(1, cw, s, a, k)
    \/ PaidQueryFails(1)
    \/ Catch(1)
    \/ NewOperation(1)
    \/ \E key \in CacheKeys : CachePopulate(key)
    \/ PaidAndWaitlist

SpecFrame == Init /\ [][NextFrame]_vars

\* one worker that calls, edits the capacity, deletes the quota and creates
\* it again, while views fill event.cache
NextWrite ==
    \/ /\ db # NoRow
       /\ \E cw \in BOOLEAN, a \in BOOLEAN : Availability(1, None, cw, FALSE, a)
    \/ Finish(1)
    \/ Return(1)
    \/ \E size \in Sizes : Save(1, size, TRUE)
    \/ Delete(1)
    \/ \E key \in CacheKeys : CachePopulate(key)
    \/ PaidAndWaitlist

SpecWrite == Init /\ [][NextWrite]_vars

----------------------------------------------------------------------------
(* One sequence of calls made twice from the same state: by worker 1 with   *)
(* a call-scoped cache, empty at first, and by worker 2 without one.  The   *)
(* flag of the sequence is kept in `last`, with whether a call of the       *)
(* sequence was given a now_dt.  Demand does not change.                    *)

\* the paid orders and waiting-list entries there can be
PaidAndWaitlistDemands ==
    {d \in [DemandKinds -> Counts] :
        d.pending = 0 /\ d.blocking = 0 /\ d.cart = 0 /\ TotalDemand(d) <= MaxCount}

\* the object after an earlier call stored its verdict at time t, when demand was d
StoredEarlier(size, d, t) ==
    LET r == _availability(NewQuota(size), d, TRUE)
    IN  Memoize(r.self, r.res, t, d)

InitBulk ==
    /\ \E size \in Sizes :
           \E self \in {NewQuota(size)} \cup
                        {StoredEarlier(size, d, t) : d \in PaidAndWaitlistDemands, t \in Times} :
               db = self /\ obj = [w \in Workers |-> self]
    /\ demand \in PaidAndWaitlistDemands
    /\ clock = 0
    /\ evcache = {}
    /\ ccache = [w \in Workers |-> EmptyCache]
    /\ call = [w \in Workers |-> Idle]
    /\ \E cw \in BOOLEAN :
           last = [w \in Workers |-> [valid |-> FALSE, count_waitinglist |-> cw,
                                     timed |-> FALSE]]

\* worker 1 makes the next call of the sequence, with the cache
BulkCall(now_arg, allow_cache) ==
    /\ call[2].pc = "idle"
    /\ Availability(1, now_arg, last[1].count_waitinglist, TRUE, allow_cache)

\* worker 2 makes the same call, without a cache
PlainCall ==
    /\ call[1].pc = "done"
    /\ Availability(2, call[1].now_arg, call[1].count_waitinglist, FALSE,
                    call[1].allow_cache)

\* both callers take their results
ReturnBoth ==
    /\ call[1].pc = "done" /\ call[2].pc = "done"
    /\ call' = [w \in Workers |-> Idle]
    /\ last' = [w \in Workers |->
                   [last[w] EXCEPT !.valid = TRUE,
                                   !.timed = @ \/ call[1].now_arg # None]]
    /\ UNCHANGED <<db, demand, clock, evcache, obj, ccache>>

NextBulk ==
    \/ \E t \in NowArgs, a \in BOOLEAN : BulkCall(t, a)
    \/ PlainCall
    \/ \E w \in Workers : Finish(w)
    \/ ReturnBoth
    \/ Tick

SpecBulk == InitBulk /\ [][NextBulk]_vars

----------------------------------------------------------------------------
(* One logical operation: worker 1 calls again and again with the same     *)
(* dict and the same flag, while demand changes.  `last` keeps the verdict *)
(* of the call before and the first verdict of the operation that was not  *)
(* answered from the stored verdict.                                       *)

\* an order is paid or a waiting-list entry comes or goes during the operation
DemandChangeWithin(k, n) ==
    /\ AllIdle
    /\ n # demand[k]
    /\ demand' = [demand EXCEPT ![k] = n]
    /\ TotalDemand(demand') <= MaxCount
    /\ UNCHANGED <<db, clock, evcache, obj, ccache, call, last>>

\* the caller takes the result and goes on with the operation
ReturnWithin(w) ==
    /\ call[w].pc = "done"
    /\ last' = [last EXCEPT ![w] =
                   [valid |-> TRUE, count_waitinglist |-> @.count_waitinglist,
                    timed |-> FALSE, ret |-> call[w].ret,
                    first |-> IF @.valid /\ @.first # NoVerdict THEN @.first
                              ELSE IF call[w].path # "stored" THEN call[w].ret
                              ELSE NoVerdict]]
    /\ call' = [call EXCEPT ![w] = Idle]
    /\ UNCHANGED <<db, demand, clock, evcache, obj, ccache>>

NextOperation ==
    \/ \E a \in BOOLEAN : BulkCall(None, a)
    \/ Finish(1)
    \/ ReturnWithin(1)
    \/ \E k \in {"paid", "waitlist"}, n \in Counts : DemandChangeWithin(k, n)
    \/ Tick

SpecOperation == InitBulk /\ [][NextOperation]_vars

----------------------------------------------------------------------------
(* Calls while demand changes, at a caller-given time without a dict or    *)
(* at the wall-clock time with one.  `last` keeps the wall-clock time of   *)
(* the last change of demand, and whether a call before was given a now_dt.*)

InitStale ==
    /\ \E s \in Sizes : db = NewQuota(s) /\ obj = [w \in Workers |-> NewQuota(s)]
    /\ demand = [k \in DemandKinds |-> 0]
    /\ clock = 0
    /\ evcache = {}
    /\ ccache = [w \in Workers |-> EmptyCache]
    /\ call = [w \in Workers |-> Idle]
    /\ last = [w \in Workers |-> [valid |-> FALSE, changed |-> 0, timed |-> FALSE]]

\* an order is paid or a waiting-list entry comes or goes, at the wall-clock time
DemandChangeStamped(k, n) ==
    /\ AllIdle
    /\ n # demand[k]
    /\ demand' = [demand EXCEPT ![k] = n]
    /\ TotalDemand(demand') <= MaxCount
    /\ last' = [w \in Workers |-> [last[w] EXCEPT !.changed = clock]]
    /\ UNCHANGED <<db, clock, evcache, obj, ccache, call>>

\* the caller takes the result
ReturnTimed(w) ==
    /\ call[w].pc = "done"
    /\ last' = [last EXCEPT ![w] =
                   [@ EXCEPT !.valid = TRUE, !.timed = @ \/ call[w].now_arg # None]]
    /\ call' = [call EXCEPT ![w] = Idle]
    /\ UNCHANGED <<db, demand, clock, evcache, obj, ccache>>

NextStale ==
    \/ \E t \in NowArgs, cw \in BOOLEAN, a \in BOOLEAN : Availability(1, t, cw, FALSE, a)
    \/ \E cw \in BOOLEAN, a \in BOOLEAN : Availability(1, None, cw, TRUE, a)
    \/ Finish(1)
    \/ ReturnTimed(1)
    \/ \E k \in {"paid", "waitlist"}, n \in Counts : DemandChangeStamped(k, n)
    \/ Tick

SpecStale == InitStale /\ [][NextStale]_vars

----------------------------------------------------------------------------
(* Calls and rebuilds, some of which fail in a query.                      *)

\* Quota.rebuild_cache, lines 987-991, when the k-th query of _availability
\* raises: lines 988-990 have cleared the object
RebuildQueryFails(w, k) ==
    LET self == ClearMemo(obj[w])
        r == _availability(self, demand, TRUE)
    IN  /\ call[w].pc = "idle"
        /\ k \in 1..Len(r.queries)
        /\ call' = [call EXCEPT ![w] =
                       [op |-> "rebuild_cache", now_arg |-> None,
                        count_waitinglist |-> TRUE,
                        allow_cache |-> FALSE, supplied |-> FALSE,
                        at |-> clock, entry |-> self, row |-> db,
                        centry |-> ccache[w], ev |-> evcache,
                        pc |-> "raised", path |-> "computed", now_dt |-> clock,
                        ret |-> NoVerdict, queries |-> SubSeq(r.queries, 1, k),
                        wrote |-> FALSE]]
        /\ obj' = [obj EXCEPT ![w] = AfterAnswered(self, demand, k)]
        /\ UNCHANGED <<db, demand, clock, evcache, ccache, last>>

NextMemo ==
    \/ \E cw \in BOOLEAN, a \in BOOLEAN : Availability(1, None, cw, FALSE, a)
    \/ RebuildCache(1, None)
    \/ Finish(1)
    \/ Return(1)
    \/ \E cw \in BOOLEAN, a \in BOOLEAN, k \in 1..5 : QueryFails(1, cw, FALSE, a, k)
    \/ \E k \in 1..5 : RebuildQueryFails(1, k)
    \/ PaidQueryFails(1)
    \/ Catch(1)
    \/ Load(1)
    \/ PaidAndWaitlist

SpecMemo == Init /\ [][NextMemo]_vars

----------------------------------------------------------------------------
(* The calculator alone: a capacity and five counts are drawn, and         *)
(* _availability is applied to them with either flag.                      *)

InitCalc ==
    /\ \E s \in {None} \cup (0..CalcMaxSize) :
           db = NewQuota(s) /\ obj = [w \in Workers |-> NewQuota(s)]
    /\ demand \in [DemandKinds -> 0..CalcMaxCount]
    /\ clock = 0
    /\ evcache = {}
    /\ ccache = [w \in Workers |-> EmptyCache]
    /\ call = [w \in Workers |-> Idle]
    /\ last = [w \in Workers |-> NoLast]

Calc(count_waitinglist) ==
    /\ call[1].pc = "idle"
    /\ call' = [call EXCEPT ![1] =
                   [pc |-> "calc", count_waitinglist |-> count_waitinglist,
                    out |-> _availability(obj[1], demand, count_waitinglist)]]
    /\ UNCHANGED <<db, demand, clock, evcache, obj, ccache, last>>

NextCalc == \E cw \in BOOLEAN : Calc(cw)

SpecCalc == InitCalc /\ [][NextCalc]_vars

----------------------------------------------------------------------------
(* Item.check_quotas and ItemVariation.check_quotas, lines 397-403 and     *)
(* 531-534, alone: the verdicts of the quotas that apply, in the order in  *)
(* which the set check_quotas yields them, are drawn at the start.         *)

Verdicts ==
    {<<AVAILABILITY_GONE, 0>>, <<AVAILABILITY_ORDERED, 0>>, <<AVAILABILITY_RESERVED, 0>>}
        \cup {<<AVAILABILITY_OK, n>> : n \in 1..MaxRemaining}
        \cup {<<AVAILABILITY_OK, None>>}

\* a variant of the key that leaves None as it is
min_key_raw(s) == s

\* the key of line 403: lambda s: (s[0], s[1] if s[1] is not None else sys.maxsize)
min_key(s) == <<s[1], IF s[2] # None THEN s[2] ELSE sys_maxsize>>

\* the order of Python tuples
TupleLess(a, b) == a[1] < b[1] \/ (a[1] = b[1] /\ a[2] < b[2])

\* min(list, key=...): the first element with the least key
RECURSIVE min(_)
min(list) ==
    IF Len(list) = 1 THEN list[1]
    ELSE LET m == min(SubSeq(list, 1, Len(list) - 1))
             x == list[Len(list)]
         IN  IF TupleLess(min_key(x), min_key(m)) THEN x ELSE m

\* a variant that answers "no limit" with None, as Quota.availability does
check_quotas_none(availabilities) ==
    IF availabilities = <<>> THEN <<AVAILABILITY_OK, None>>
    ELSE min(availabilities)

\* lines 397-398 and 402-403
check_quotas(availabilities) ==
    IF availabilities = <<>> THEN <<AVAILABILITY_OK, sys_maxsize>>
    ELSE min(availabilities)

\* check_quotas -= set(ignored_quotas), lines 395-396 and 527-528: the
\* quotas at the positions in `ignored` leave the list
RECURSIVE Minus(_, _)
Minus(quotas, ignored) ==
    IF quotas = <<>> THEN <<>>
    ELSE LET n == Len(quotas)
             front == Minus(SubSeq(quotas, 1, n - 1), ignored)
         IN  IF n \in ignored THEN front ELSE Append(front, quotas[n])

\* a variant that never asks for a subevent
MissingSubeventNever(subevent, has_subevents) == FALSE

\* lines 393 and 529: `not subevent and event.has_subevents`
MissingSubevent(subevent, has_subevents) == subevent = None /\ has_subevents

Raise(error) == [error |-> error, ret |-> NoVerdict, availabilities |-> <<>>]

\* the verdict returned, and the verdicts that availability() was called for
Returned(quotas) ==
    [error |-> "", ret |-> check_quotas(quotas), availabilities |-> quotas]

\* a variant that looks at has_variations before it looks at the quotas left
ItemCheckVariationsFirst(quotas, ignored, subevent, has_subevents, has_variations) ==
    IF MissingSubevent(subevent, has_subevents) THEN Raise("TypeError")
    ELSE IF has_variations THEN Raise("ValueError")
    ELSE Returned(Minus(quotas, ignored))

\* Item.check_quotas, lines 388-403; `quotas` is the set of line 388 in the
\* order in which it is iterated
ItemCheck(quotas, ignored, subevent, has_subevents, has_variations) ==
    LET check == Minus(quotas, ignored)
    IN  IF MissingSubevent(subevent, has_subevents) THEN Raise("TypeError")
        ELSE IF check = <<>> THEN Returned(check)
        ELSE IF has_variations THEN Raise("ValueError")
        ELSE Returned(check)

\* ItemVariation.check_quotas, lines 522-534
VariationCheck(quotas, ignored, subevent, has_subevents) ==
    LET check == Minus(quotas, ignored)
    IN  IF MissingSubevent(subevent, has_subevents) THEN Raise("TypeError")
        ELSE Returned(check)

\* the callers: an item without variations, an item with variations, and a
\* variation; the event is a series or not, a subevent is given or not
InitQuotas ==
    /\ db = NewQuota(None) /\ obj = [w \in Workers |-> NewQuota(None)]
    /\ demand = [k \in DemandKinds |-> 0]
    /\ clock = 0
    /\ evcache = {}
    /\ ccache = [w \in Workers |-> EmptyCache]
    /\ \E n \in 0..MaxQuotas : \E list \in [1..n -> Verdicts] :
       \E ignored \in SUBSET (1..n) :
       \E on \in {"Item", "ItemVariation"}, has_variations \in BOOLEAN :
       \E has_subevents \in BOOLEAN, subevent \in {None, 1} :
           /\ on = "ItemVariation" => ~has_variations
           /\ call = [w \in Workers |->
                         IF w = 1
                         THEN [pc |-> "item", on |-> on, quotas |-> list,
                               ignored |-> ignored, subevent |-> subevent,
                               has_subevents |-> has_subevents,
                               has_variations |-> has_variations]
                         ELSE Idle]
    /\ last = [w \in Workers |-> NoLast]

CheckQuotas ==
    LET c == call[1]
        out == IF c.on = "Item"
               THEN ItemCheck(c.quotas, c.ignored, c.subevent, c.has_subevents,
                              c.has_variations)
               ELSE VariationCheck(c.quotas, c.ignored, c.subevent, c.has_subevents)
    IN  /\ c.pc = "item"
        /\ call' = [call EXCEPT ![1] =
                       [c EXCEPT !.pc = IF out.error = "" THEN "checked" ELSE "raised"]
                           @@ out]
        /\ UNCHANGED <<db, demand, clock, evcache, obj, ccache, last>>

NextQuotas == CheckQuotas

SpecQuotas == InitQuotas /\ [][NextQuotas]_vars

----------------------------------------------------------------------------
(* The count queries on records, lines 1069-1133.  Here db is the part of   *)
(* the database that the queries read: the quota's items, variations and    *)
(* subevent, the variations that exist (ItemVariation rows), the order      *)
(* lines, cart holds and waiting-list entries (positions) and the vouchers. *)
(* All of it belongs to one event.                                          *)

Items == {1, 2}

\* the variations that can exist: one for each item
ItemVariations == {11, 12}

\* ItemVariation.item
ItemOf(v) == v - 10

Subevents == {None, 1, 2}

PositionKinds == {"paid", "pending", "cart", "waitlist"}

\* Item.has_variations, lines 410-412
has_variations(w, item) == \E v \in w.itemvariations : ItemOf(v) = item

\* a variant that looks at the items only
position_lookup_items_only(w, r) == r.variation = None /\ r.item \in w.items

\* Quota._position_lookup, lines 1124-1133
position_lookup(w, r) ==
    \/ r.variation = None /\ r.item \in w.items
    \/ r.variation # None /\ r.variation \in w.variations

\* subevent=self.subevent: equal, or both NULL
subevent_is(w, r) == r.subevent = w.subevent

\* the rows of one kind
Rows(w, kind) == {i \in 1..Len(w.positions) : w.positions[i].kind = kind}

\* the voucher of a row, if it has one
VoucherOf(w, r) == w.vouchers[r.voucher]

\* lines 1117-1122
paid_orders(w) ==
    LET F(r) == position_lookup(w, r) /\ subevent_is(w, r)
    IN  Cardinality({i \in Rows(w, "paid") : F(w.positions[i])})

\* lines 1109-1115
pending_orders(w) ==
    LET F(r) == position_lookup(w, r) /\ subevent_is(w, r)
    IN  Cardinality({i \in Rows(w, "pending") : F(w.positions[i])})

\* lines 1087-1092
waiting_list_pending(w) ==
    LET F(r) == /\ r.voucher = None
                /\ subevent_is(w, r)
                /\ position_lookup(w, r)
    IN  Cardinality({i \in Rows(w, "waitlist") : F(w.positions[i])})

\* a variant that sums the differences as they are
FreeUsagesUnclipped(v) == v.max_usages - v.redeemed

\* line 1084: GREATEST(max_usages - redeemed, 0)
FreeUsages(v) ==
    IF v.max_usages - v.redeemed > 0 THEN v.max_usages - v.redeemed ELSE 0

\* line 1081: valid_until IS NULL OR valid_until >= now_dt
StillValid(v, now_dt) == v.valid_until = None \/ v.valid_until >= now_dt

\* lines 1078-1082: the vouchers that block capacity of this quota
Blocks(w, v, now_dt) ==
    /\ subevent_is(w, v)
    /\ v.block_quota
    /\ StillValid(v, now_dt)
    /\ position_lookup(w, v) \/ v.quota = "self"

\* lines 1083-1085: Sum(...) over the rows, or 0
RECURSIVE SumFree(_, _, _)
SumFree(w, n, now_dt) ==
    IF n = 0 THEN 0
    ELSE SumFree(w, n - 1, now_dt)
             + (IF Blocks(w, w.vouchers[n], now_dt) THEN FreeUsages(w.vouchers[n]) ELSE 0)

\* lines 1069-1085
blocking_vouchers(w, now_dt) == SumFree(w, Len(w.vouchers), now_dt)

\* lines 1101-1105: no voucher, or one that does not block, or one that
\* expired before now_dt
NotHeldByVoucher(w, r, now_dt) ==
    \/ r.voucher = None
    \/ /\ r.voucher # None
       /\ \/ ~VoucherOf(w, r).block_quota
          \/ /\ VoucherOf(w, r).valid_until # None
             /\ VoucherOf(w, r).valid_until < now_dt

\* lines 1094-1107
in_cart(w, now_dt) ==
    LET F(r) == /\ subevent_is(w, r)
                /\ r.expires >= now_dt
                /\ NotHeldByVoucher(w, r, now_dt)
                /\ position_lookup(w, r)
    IN  Cardinality({i \in Rows(w, "cart") : F(w.positions[i])})

\* the five counts that _availability asks for, lines 1044-1063
Queries(w, now_dt) ==
    [paid |-> paid_orders(w), pending |-> pending_orders(w),
     blocking |-> blocking_vouchers(w, now_dt), cart |-> in_cart(w, now_dt),
     waitlist |-> waiting_list_pending(w)]

\* the quota's scope, with the variations that exist, and no record yet
Scopes ==
    [items : SUBSET Items, variations : SUBSET ItemVariations, subevent : Subevents,
     itemvariations : SUBSET ItemVariations, positions : {<<>>}, vouchers : {<<>>}]

InitWorld(w) ==
    /\ db = w
    /\ obj = [v \in Workers |-> NewQuota(None)]
    /\ demand = [k \in DemandKinds |-> 0]
    /\ clock = 0
    /\ evcache = {}
    /\ ccache = [v \in Workers |-> EmptyCache]
    /\ call = [v \in Workers |-> Idle]
    /\ last = [v \in Workers |-> NoLast]

\* the quota's variations exist
InitScope == \E w \in Scopes : w.variations \subseteq w.itemvariations /\ InitWorld(w)

\* an order line, cart hold or waiting-list entry is made for an item: with
\* its variation if the item has one, without if it has none
AddPosition(kind, item, subevent) ==
    /\ AllIdle
    /\ Len(db.positions) < MaxPositions
    /\ \E variation \in {None} \cup ItemVariations :
           /\ IF has_variations(db, item)
              THEN variation \in db.itemvariations /\ ItemOf(variation) = item
              ELSE variation = None
           /\ db' = [db EXCEPT !.positions =
                        Append(@, [kind |-> kind, item |-> item, variation |-> variation,
                                   subevent |-> subevent, expires |-> clock + TickLen,
                                   voucher |-> None])]
    /\ UNCHANGED <<demand, clock, evcache, obj, ccache, call, last>>

\* ItemVariation.save, lines 505-508: an item gets a variation
SaveVariation(v) ==
    /\ AllIdle
    /\ v \notin db.itemvariations
    /\ db' = [db EXCEPT !.itemvariations = @ \cup {v}]
    /\ evcache' = CacheClear(evcache)
    /\ UNCHANGED <<demand, clock, obj, ccache, call, last>>

\* the count queries are run at now_dt
Query(now_dt) ==
    /\ call[1].pc = "idle"
    /\ demand' = Queries(db, now_dt)
    /\ call' = [call EXCEPT ![1] = [pc |-> "done", op |-> "count", now_dt |-> now_dt]]
    /\ UNCHANGED <<db, clock, evcache, obj, ccache, last>>

NextScope ==
    \/ \E kind \in PositionKinds, item \in Items, subevent \in Subevents :
           AddPosition(kind, item, subevent)
    \/ \E v \in ItemVariations : SaveVariation(v)
    \/ Query(clock)
    \/ Return(1)

SpecScope == InitScope /\ [][NextScope]_vars

\* the vouchers of the event: for the whole event, for a quota (this one or
\* another), for an item or for one variation of an item
Vouchers ==
    {v \in [block_quota : BOOLEAN, valid_until : {None, TickLen},
            max_usages : 0..MaxUsages, redeemed : 0..MaxUsages,
            item : {None} \cup Items, variation : {None} \cup ItemVariations,
            quota : {"", "self", "other"}, subevent : {None, 1}] :
        /\ v.variation # None => v.item = ItemOf(v.variation)
        /\ v.quota # "" => v.item = None}

\* a quota for item 1, which has no variations, and for variation 12 of item 2
VoucherScopes ==
    [items : {{1}}, variations : {{12}}, subevent : {None, 1},
     itemvariations : {{12}}, positions : {<<>>},
     vouchers : UNION {[1..n -> Vouchers] : n \in 0..MaxVouchers}]

InitVouchers == \E w \in VoucherScopes : InitWorld(w)

NextVouchers ==
    \/ \E now_dt \in Times : Query(now_dt)
    \/ Return(1)

SpecVouchers == InitVouchers /\ [][NextVouchers]_vars

\* vouchers with one usage left, for the event, a quota or an item
CartVouchers ==
    {v \in Vouchers : v.max_usages = 1 /\ v.redeemed = 0 /\ v.variation = None}

CartScopes ==
    [items : {{1}}, variations : {{12}}, subevent : {None, 1},
     itemvariations : {{12}}, positions : {<<>>},
     vouchers : UNION {[1..n -> CartVouchers] : n \in 0..MaxVouchers}]

InitCart == \E w \in CartScopes : InitWorld(w)

\* a cart hold is made for an item, with or without a voucher; a voucher
\* for an item is used for that item only
AddCartPosition(item, subevent, voucher) ==
    /\ AllIdle
    /\ Len(db.positions) < MaxPositions
    /\ voucher # None =>
           /\ voucher \in 1..Len(db.vouchers)
           /\ db.vouchers[voucher].item \in {None, item}
           /\ db.vouchers[voucher].quota = "self" =>
                  item \in db.items \/ has_variations(db, item)
    /\ db' = [db EXCEPT !.positions =
                 Append(@, [kind |-> "cart", item |-> item,
                            variation |-> IF has_variations(db, item)
                                          THEN CHOOSE v \in db.itemvariations :
                                                   ItemOf(v) = item
                                          ELSE None,
                            subevent |-> subevent, expires |-> clock + TickLen,
                            voucher |-> voucher])]
    /\ UNCHANGED <<demand, clock, evcache, obj, ccache, call, last>>

NextCart ==
    \/ \E item \in Items, subevent \in {None, 1}, voucher \in {None} \cup (1..MaxVouchers) :
           AddCartPosition(item, subevent, voucher)
    \/ \E now_dt \in Times : Query(now_dt)
    \/ Return(1)

SpecCart == InitCart /\ [][NextCart]_vars

Events == {1, 2}

\* lines 1138-1143: "" when nothing is raised
clean_variations(items, variations) ==
    IF \E variation \in variations : ItemOf(variation) \notin items
    THEN "ValidationError" ELSE ""

\* a variant that looks at the events of the items only
clean_items_events_only(w, event, items, variations) ==
    IF \E item \in items : event # w.item_event[item]
    THEN "ValidationError" ELSE ""

\* lines 1145-1152
clean_items(w, event, items, variations) ==
    IF \E item \in items :
           \/ event # w.item_event[item]
           \/ /\ has_variations(w, item)
              /\ ~\E var \in variations : ItemOf(var) = item
    THEN "ValidationError" ELSE ""

\* the scopes a quota can be given: items of this or another event, and
\* variations that exist
CleanScopes ==
    [items : SUBSET Items, variations : SUBSET ItemVariations, subevent : {None},
     itemvariations : SUBSET ItemVariations, positions : {<<>>}, vouchers : {<<>>},
     event : Events, item_event : [Items -> Events]]

InitClean == \E w \in CleanScopes : w.variations \subseteq w.itemvariations /\ InitWorld(w)

CleanVariations ==
    /\ call[1].pc = "idle"
    /\ call' = [call EXCEPT ![1] =
                   [pc |-> "done", op |-> "clean_variations",
                    error |-> clean_variations(db.items, db.variations)]]
    /\ UNCHANGED <<db, demand, clock, evcache, obj, ccache, last>>

CleanItems ==
    /\ call[1].pc = "idle"
    /\ call' = [call EXCEPT ![1] =
                   [pc |-> "done", op |-> "clean_items",
                    error |-> clean_items(db, db.event, db.items, db.variations)]]
    /\ UNCHANGED <<db, demand, clock, evcache, obj, ccache, last>>

NextClean ==
    \/ CleanVariations
    \/ CleanItems
    \/ \E kind \in PositionKinds, item \in Items : AddPosition(kind, item, None)
    \/ Query(clock)
    \/ Return(1)

SpecClean == InitClean /\ [][NextClean]_vars

----------------------------------------------------------------------------
(* C1.  For every finite capacity C and counts p, q, b, c, w the calculator *)
(* returns (GONE, 0) if p >= C; (ORDERED, 0) if p < C <= p+q; (RESERVED, 0) *)
(* if the capacity runs out at the blocking vouchers, at the cart holds or, *)
(* with the waitlist counted, at the waiting list; otherwise               *)
(* (OK, C - p - q - b - c - w), with w = 0 when the waitlist is not counted. *)

C1_Expected(C, d, count_waitinglist) ==
    LET p == d.paid
        q == d.pending
        b == d.blocking
        c == d.cart
        w == IF count_waitinglist THEN d.waitlist ELSE 0
    IN  IF p >= C THEN <<AVAILABILITY_GONE, 0>>
        ELSE IF C <= p + q THEN <<AVAILABILITY_ORDERED, 0>>
        ELSE IF C <= p + q + b + c + w THEN <<AVAILABILITY_RESERVED, 0>>
        ELSE <<AVAILABILITY_OK, C - p - q - b - c - w>>

C1_CalculatorTable ==
    (call[1].pc = "calc" /\ obj[1].size # None) =>
        call[1].out.res = C1_Expected(obj[1].size, demand, call[1].count_waitinglist)

\* the capacity runs out exactly at the waiting list
C1_Witness ==
    /\ call[1].pc = "calc"
    /\ obj[1].size # None
    /\ call[1].count_waitinglist
    /\ TotalDemand(demand) = obj[1].size
    /\ demand.waitlist > 0
    /\ call[1].out.res = <<AVAILABILITY_RESERVED, 0>>

----------------------------------------------------------------------------
(* C2.  For a quota with unlimited capacity, availability() returns        *)
(* (OK, unlimited) for every demand and either flag, and issues no         *)
(* demand-count query during the call.                                     *)

C2_UnlimitedNoQuery ==
    \A w \in Workers :
        (call[w].pc = "done" /\ call[w].entry.size = None) =>
            /\ call[w].ret = <<AVAILABILITY_OK, None>>
            /\ call[w].queries = <<>>

(* C2, amended.  A call that runs the calculator on a quota with unlimited *)
(* capacity returns (OK, unlimited) for every demand and either flag; the  *)
(* calculator issues no query, and the call issues the paid-orders count   *)
(* of line 1024, and only that, exactly when it stores the verdict (the    *)
(* waitlist is counted and the stored verdict is not hot at now_dt).       *)

C2_UnlimitedOnlyPaidQueryOnStore ==
    \A w \in Workers :
        (call[w].pc = "done" /\ call[w].path = "computed" /\ call[w].entry.size = None) =>
            /\ call[w].ret = <<AVAILABILITY_OK, None>>
            /\ call[w].queries =
                   IF /\ call[w].count_waitinglist
                      /\ \/ call[w].entry.cached_availability_time = None
                         \/ call[w].now_dt - call[w].entry.cached_availability_time
                                >= StaleWindow
                   THEN <<"count_paid_orders">>
                   ELSE <<>>

\* an unlimited quota with demand, computed without the waitlist: no query
C2_Witness ==
    /\ call[1].pc = "done"
    /\ call[1].path = "computed"
    /\ call[1].entry.size = None
    /\ ~call[1].count_waitinglist
    /\ TotalDemand(demand) > 0
    /\ call[1].queries = <<>>
    /\ call[1].ret = <<AVAILABILITY_OK, None>>

----------------------------------------------------------------------------
(* C3.  Two consecutive availability() calls on the same quota within the  *)
(* 120-second window, with the same waitlist flag and no demand change in  *)
(* between, return identical verdicts and together issue at most one set   *)
(* of demand-count queries.                                                *)

\* worker w has returned from a second call that is comparable with its first
C3_Consecutive(w) ==
    /\ call[w].pc = "done"
    /\ last[w].valid
    /\ last[w].count_waitinglist = call[w].count_waitinglist
    /\ call[w].at - last[w].at < StaleWindow

----------------------------------------------------------------------------
(* C4.  availability() returns the stored verdict without running the      *)
(* calculator if and only if the stored verdict is hot (computed less than *)
(* 120 seconds ago, for the requested waitlist flag) and allow_cache is    *)
(* true; in every other case it runs the calculator.                       *)

\* the stored verdict of the object is hot on entry, for a waitlist-counting call
C4_HotOnEntry(c) ==
    /\ c.count_waitinglist
    /\ c.entry.cached_availability_time # None
    /\ c.at - c.entry.cached_availability_time < StaleWindow

C4_StoredIffHotElseCalculator ==
    \A w \in Workers :
        call[w].pc = "done" =>
            IF call[w].allow_cache /\ C4_HotOnEntry(call[w])
            THEN call[w].path = "stored"
            ELSE call[w].path = "computed"

(* C4, amended.  availability() returns the stored verdict without running *)
(* the calculator if and only if the stored verdict is hot and allow_cache *)
(* is true; in every other case it returns the entry of the call-scoped    *)
(* cache, if one was passed and holds an entry for the quota made with the *)
(* same waitlist flag, and otherwise runs the calculator.                  *)

C4_StoredIffHotElseCacheOrCalculator ==
    \A w \in Workers :
        call[w].pc = "done" =>
            IF call[w].allow_cache /\ C4_HotOnEntry(call[w])
            THEN call[w].path = "stored" /\ call[w].ret = StoredVerdict(call[w].entry)
            ELSE IF /\ call[w].supplied
                    /\ call[w].centry.has
                    /\ call[w].centry.cw = call[w].count_waitinglist
            THEN call[w].path = "call_cache" /\ call[w].ret = call[w].centry.val
            ELSE call[w].path = "computed"

\* a verdict stored 60 seconds ago is served
C4_Witness ==
    /\ call[1].pc = "done"
    /\ call[1].path = "stored"
    /\ call[1].at - call[1].entry.cached_availability_time = TickLen

----------------------------------------------------------------------------
(* C5.  On a miss, availability() overwrites the stored state, remaining   *)
(* count and timestamp with the computed verdict and the call's current    *)
(* time exactly when the waitlist is counted and the stored verdict is not *)
(* hot at that time; otherwise the three are left unchanged, in the object *)
(* and in the row, although a fresh verdict is returned.                   *)

C5_Memo(r) ==
    <<r.cached_availability_state, r.cached_availability_number,
      r.cached_availability_time>>

C5_WriteExactlyWhenWaitlistAndNotHot ==
    \A w \in Workers :
        (call[w].pc = "done" /\ call[w].path = "computed") =>
            LET c == call[w]
                hot == /\ c.entry.cached_availability_time # None
                       /\ c.now_dt - c.entry.cached_availability_time < StaleWindow
            IN  /\ c.ret = _availability(c.entry, demand, c.count_waitinglist).res
                /\ IF c.count_waitinglist /\ ~hot
                   THEN /\ C5_Memo(obj[w]) = <<c.ret[1], c.ret[2], c.now_dt>>
                        /\ C5_Memo(db) = <<c.ret[1], c.ret[2], c.now_dt>>
                   ELSE /\ C5_Memo(obj[w]) = C5_Memo(c.entry)
                        /\ C5_Memo(db) = C5_Memo(c.row)

\* a waitlist-counting miss while the stored verdict is hot: the fresh
\* verdict differs from the stored one and is not written
C5_Witness ==
    /\ call[1].pc = "done"
    /\ call[1].op = "availability"
    /\ call[1].path = "computed"
    /\ call[1].count_waitinglist
    /\ cache_is_hot(call[1].entry, call[1].now_dt)
    /\ call[1].ret # StoredVerdict(obj[1])
    /\ C5_Memo(db) = C5_Memo(call[1].entry)

----------------------------------------------------------------------------
(* C6.  After a quota's capacity is edited and saved, no later             *)
(* availability() call, including one with allow_cache=True inside the     *)
(* staleness window, returns a verdict that was computed from the capacity *)
(* before the edit: every verdict a call returns is one the calculator     *)
(* yields for the capacity the quota has at the call.                      *)

\* the verdicts the calculator can yield for a capacity
C6_VerdictsOf(size) ==
    {_availability(NewQuota(size), d, TRUE).res : d \in [DemandKinds -> Counts]}

C6_EditInvalidatesStoredVerdict ==
    \A w \in Workers :
        (call[w].pc = "done" /\ call[w].op = "availability") =>
            call[w].ret \in C6_VerdictsOf(call[w].entry.size)

----------------------------------------------------------------------------
(* C7.  rebuild_cache() followed immediately by availability(), with or    *)
(* without allow_cache, with or without a call-scoped cache, never returns *)
(* a verdict that was stored before the rebuild: the returned verdict      *)
(* comes from a computation run at or after the rebuild.                   *)

\* worker w has returned from an availability() call that directly followed
\* its rebuild_cache(), with no demand change in between
C7_AfterRebuild(w) ==
    /\ call[w].pc = "done"
    /\ call[w].op = "availability"
    /\ last[w].valid
    /\ last[w].op = "rebuild_cache"

\* the verdict of the demand as it is now
C7_Fresh(w) ==
    _availability(call[w].entry, demand, call[w].count_waitinglist).res

C7_NothingOlderThanRebuild ==
    \A w \in Workers :
        C7_AfterRebuild(w) =>
            /\ call[w].path # "call_cache"
            /\ call[w].ret = C7_Fresh(w)

(* C7, amended.  The same, for a call that is not answered from a          *)
(* call-scoped cache: rebuild_cache() does not touch the caller's _cache,  *)
(* and an entry put there before the rebuild is returned as it is.         *)

C7_NothingOlderThanRebuildButCallCache ==
    \A w \in Workers :
        (/\ C7_AfterRebuild(w)
         /\ ~(/\ call[w].supplied
              /\ call[w].centry.has
              /\ call[w].centry.cw = call[w].count_waitinglist)) =>
            /\ call[w].path \in {"stored", "computed"}
            /\ call[w].ret = C7_Fresh(w)
            /\ call[w].path = "stored" => call[w].ret = last[w].ret

\* the call after the rebuild is answered from the verdict the rebuild stored
C7_Witness ==
    /\ C7_AfterRebuild(1)
    /\ call[1].allow_cache
    /\ call[1].path = "stored"
    /\ call[1].ret = <<AVAILABILITY_GONE, 0>>
    /\ last[1].wrote

----------------------------------------------------------------------------
(* C8.  After rebuild_cache(now) completes from any starting state (stored *)
(* verdict hot, stale or absent), the stored state and remaining count     *)
(* equal the waitlist-inclusive verdict of the current demand and the      *)
(* stored timestamp equals now.                                            *)

C8_Now(c) == IF c.now_arg = None THEN c.at ELSE c.now_arg

C8_Verdict(size, d) ==
    IF size = None THEN <<AVAILABILITY_OK, None>> ELSE C1_Expected(size, d, TRUE)

C8_RebuildStoresCurrentVerdict ==
    \A w \in Workers :
        (call[w].pc = "done" /\ call[w].op = "rebuild_cache") =>
            /\ StoredVerdict(obj[w]) = C8_Verdict(obj[w].size, demand)
            /\ obj[w].cached_availability_time = C8_Now(call[w])
            /\ StoredVerdict(db) = C8_Verdict(obj[w].size, demand)
            /\ db.cached_availability_time = C8_Now(call[w])

\* a rebuild at a caller-given time in the past, over a verdict that was hot
\* then and differs from the rebuilt one
C8_Witness ==
    /\ call[1].pc = "done"
    /\ call[1].op = "rebuild_cache"
    /\ call[1].now_arg # None
    /\ call[1].now_arg < call[1].at
    /\ cache_is_hot(call[1].row, call[1].now_arg)
    /\ StoredVerdict(call[1].row) # StoredVerdict(db)
    /\ db.cached_availability_time = call[1].now_arg

----------------------------------------------------------------------------
(* C9.  Under any interleaving of concurrent availability() calls by       *)
(* workers that each hold their own loaded copy of the quota, a miss never *)
(* overwrites a persisted verdict that is hot at the writer's current      *)
(* time: the check holds against the persisted row, not only against the   *)
(* worker's copy.                                                          *)

C9_NeverOverwritesHotRow ==
    \A w \in Workers :
        (call[w].pc = "done" /\ call[w].wrote) =>
            ~cache_is_hot(call[w].row, call[w].now_dt)

(* C9, amended.  A miss writes exactly when the waitlist is counted and    *)
(* the writer's own loaded copy is not hot at the writer's current time;   *)
(* the row itself is not read, so a worker with a stale copy overwrites a  *)
(* verdict another worker persisted less than 120 seconds before.          *)

C9_NeverWritesWhileOwnCopyHot ==
    \A w \in Workers :
        (call[w].pc = "done" /\ call[w].path = "computed") =>
            (call[w].wrote <=>
                /\ call[w].count_waitinglist
                /\ \/ call[w].entry.cached_availability_time = None
                   \/ call[w].now_dt - call[w].entry.cached_availability_time
                          >= StaleWindow)

\* worker 1, whose copy is stale, has overwritten a different verdict that
\* worker 2 persisted in the same window
C9_Witness ==
    /\ call[1].pc = "done"
    /\ call[1].wrote
    /\ ~cache_is_hot(call[1].entry, call[1].now_dt)
    /\ cache_is_hot(call[1].row, call[1].now_dt)
    /\ StoredVerdict(call[1].row) # call[1].ret

----------------------------------------------------------------------------
(* C10.  Under any interleaving of concurrent availability() misses, the   *)
(* persisted state, remaining count, confirmed count and timestamp are the *)
(* values written together by one single miss: every change of the row     *)
(* is the write of one finishing call and sets the four columns to that    *)
(* call's verdict, paid count and time, and leaves the size alone.         *)

C10_Columns(r) ==
    <<r.cached_availability_state, r.cached_availability_number,
      r.cached_availability_paid_orders, r.cached_availability_time>>

C10_WrittenByOneMiss ==
    [][db' # db =>
          \E w \in Workers :
              /\ call[w].pc = "computed"
              /\ call'[w].pc = "done"
              /\ call'[w].wrote
              /\ C10_Columns(db') =
                     <<call[w].ret[1], call[w].ret[2], count_paid_orders(demand),
                       call[w].now_dt>>
              /\ db'.size = db.size]_vars

\* worker 1 has replaced all four columns of a row that another miss wrote
C10_Witness ==
    /\ call[1].pc = "done"
    /\ call[1].wrote
    /\ call[1].row.cached_availability_time # None
    /\ call[1].row.cached_availability_time # db.cached_availability_time
    /\ call[1].row.cached_availability_paid_orders # db.cached_availability_paid_orders
    /\ StoredVerdict(call[1].row) # StoredVerdict(db)
    /\ C10_Columns(db) =
           <<call[1].ret[1], call[1].ret[2], count_paid_orders(demand), call[1].now_dt>>

----------------------------------------------------------------------------
(* C11.  An availability() call that is answered from the stored hot       *)
(* verdict or from the call-scoped cache writes nothing: the persisted     *)
(* verdict (state, remaining, confirmed count, timestamp), the             *)
(* 'item_quota_cache' entry and the call-scoped cache are unchanged by it. *)
(* The persisted verdict is written only by a call that ran the            *)
(* calculator.                                                             *)

C11_AnsweredWithoutCalculator(w) ==
    /\ call[w].pc = "idle"
    /\ call'[w].pc = "done"
    /\ call'[w].path \in {"stored", "call_cache"}

----------------------------------------------------------------------------
(* C12.  If a demand-count query fails during Quota.availability(), the    *)
(* failure propagates without retry and no verdict is returned; the        *)
(* persisted verdict, the call-scoped cache and the 'item_quota_cache'     *)
(* entry are as they were before the call.                                 *)

C12_NoRetry(qs) == \A i, j \in 1..Len(qs) : i # j => qs[i] # qs[j]

\* as stated: everything is as before the call
C12_FailureLeavesAllAsBefore ==
    \A w \in Workers :
        call[w].pc = "raised" =>
            /\ call[w].ret = NoVerdict
            /\ C12_NoRetry(call[w].queries)
            /\ C10_Columns(db) = C10_Columns(call[w].row)
            /\ ccache[w] = call[w].centry
            /\ evcache = call[w].ev

\* what holds: the row is as before; the call-scoped cache has been emptied
\* when the flag differed, and gained no entry; the 'item_quota_cache' entry
\* is as before when a query of the calculator failed and is gone when the
\* paid-orders count for the verdict of an unlimited quota failed
C12_FailureLeavesRowAsBefore ==
    \A w \in Workers :
        call[w].pc = "raised" =>
            /\ call[w].ret = NoVerdict
            /\ C12_NoRetry(call[w].queries)
            /\ C10_Columns(db) = C10_Columns(call[w].row)
            /\ ccache[w] = IF call[w].supplied /\ NonEmpty(call[w].centry)
                              /\ call[w].centry.cw # call[w].count_waitinglist
                           THEN EmptyCache ELSE call[w].centry
            /\ evcache = IF call[w].entry.size = None
                         THEN call[w].ev \ {"item_quota_cache"} ELSE call[w].ev

\* a failure of the third query while the row holds a verdict, event.cache
\* the derived entry and the caller's dict an entry
C12_Witness ==
    /\ call[1].pc = "raised"
    /\ Len(call[1].queries) = 3
    /\ db.cached_availability_time # None
    /\ "item_quota_cache" \in evcache
    /\ call[1].centry.has
    /\ call[1].supplied

----------------------------------------------------------------------------
(* C13.  Every verdict returned from a caller-supplied call-scoped cache   *)
(* was computed with the waitlist flag that the returning call requests:   *)
(* when the flag of a call differs from the flag recorded in the cache,    *)
(* all cached entries are dropped before lookup and the verdict is         *)
(* recomputed.                                                             *)

C13_FlagDiffers(c) ==
    c.supplied /\ NonEmpty(c.centry) /\ c.centry.cw # c.count_waitinglist

\* an entry is returned only under the flag recorded with it, and an entry
\* is recorded with the flag its verdict was computed with
C13_EntryUnderItsFlag(w) ==
    /\ call[w].path = "call_cache" =>
           /\ call[w].centry.has
           /\ call[w].centry.cw = call[w].count_waitinglist
           /\ call[w].ret = call[w].centry.val
    /\ (call[w].path = "computed" /\ call[w].supplied) =>
           /\ call[w].ret = _availability(call[w].entry, demand,
                                          call[w].count_waitinglist).res
           /\ ccache[w].has
           /\ ccache[w].val = call[w].ret
           /\ ccache[w].cw = call[w].count_waitinglist

\* the dict holds nothing from before the call but the new entry
C13_DroppedAndRecomputed(w) ==
    /\ call[w].path = "computed"
    /\ ~ccache[w].others

\* as stated: a differing flag always drops the entries and recomputes
C13_FlagChangeDropsAndRecomputes ==
    \A w \in Workers :
        call[w].pc = "done" =>
            /\ C13_EntryUnderItsFlag(w)
            /\ C13_FlagDiffers(call[w]) => C13_DroppedAndRecomputed(w)

\* what holds: a call answered from the stored hot verdict returns at line
\* 1008 and leaves the dict as it is, whatever its flag
C13_FlagChangeDropsUnlessStoredServed ==
    \A w \in Workers :
        call[w].pc = "done" =>
            /\ C13_EntryUnderItsFlag(w)
            /\ C13_FlagDiffers(call[w]) =>
                   IF ServeStored(call[w].entry, call[w].allow_cache,
                                  call[w].count_waitinglist, call[w].at)
                   THEN call[w].path = "stored" /\ ccache[w] = call[w].centry
                   ELSE C13_DroppedAndRecomputed(w)

\* a call whose flag differs from the one recorded in a dict that holds this
\* quota's and another quota's entry, recomputed
C13_Witness ==
    /\ call[1].pc = "done"
    /\ C13_FlagDiffers(call[1])
    /\ call[1].centry.has
    /\ call[1].centry.others
    /\ call[1].path = "computed"
    /\ call[1].ret # call[1].centry.val

----------------------------------------------------------------------------
(* C14.  Every verdict returned from the persisted cache was computed with *)
(* the waiting list counted, and no availability() call with the waitlist  *)
(* flag disabled is answered from the persisted cache: the persisted       *)
(* verdict is always a waitlist-inclusive one.  As a property of steps:    *)
(* the stored state, number and timestamp change only in the write of a    *)
(* call that counts the waiting list, to the verdict the calculator gives  *)
(* with the waiting list counted, and only a call that counts the waiting  *)
(* list is answered with the stored verdict.                               *)

C14_Stored(r) ==
    <<r.cached_availability_state, r.cached_availability_number,
      r.cached_availability_time>>

C14_PersistedIsWaitlistInclusive ==
    [][/\ C14_Stored(db') # C14_Stored(db) =>
              \E w \in Workers :
                  /\ call[w].pc = "computed"
                  /\ call'[w].pc = "done"
                  /\ call[w].count_waitinglist
                  /\ StoredVerdict(db') = _availability(call[w].entry, demand, TRUE).res
       /\ \A w \in Workers :
              (call[w].pc = "idle" /\ call'[w].pc = "done"
                  /\ call'[w].path = "stored") =>
                  /\ call'[w].count_waitinglist
                  /\ call'[w].ret = StoredVerdict(db)
         ]_vars

\* a call answered with a stored verdict that leaves waiting-list demand out
\* of the remaining count would differ from: the waiting list holds an entry,
\* the stored verdict says none is left
C14_Witness ==
    /\ call[1].pc = "done"
    /\ call[1].path = "stored"
    /\ demand.waitlist > 0
    /\ call[1].ret = <<AVAILABILITY_RESERVED, 0>>
    /\ _availability(call[1].entry, demand, FALSE).res[1] = AVAILABILITY_OK

----------------------------------------------------------------------------
(* C15.  Every verdict that availability() serves from the persisted cache *)
(* was computed less than 120 seconds before the time of the serving call, *)
(* for every sequence of calls and every current time the caller gives;    *)
(* once 120 seconds or more have passed since the stored timestamp the     *)
(* stored verdict is not served and the call recomputes.                   *)

C15_ServedOnlyWithinWindow ==
    \A w \in Workers :
        call[w].pc = "done" =>
            LET now == C8_Now(call[w])
                computed_at == call[w].entry.cached_availability_time
            IN  /\ call[w].path = "stored" =>
                       /\ computed_at # None
                       /\ now - computed_at < StaleWindow
                /\ (computed_at # None /\ now - computed_at >= StaleWindow) =>
                       call[w].path = "computed"

----------------------------------------------------------------------------
(* C16.  Every availability() call that runs the calculator and completes  *)
(* has deleted the 'item_quota_cache' entry when it returns, whether it    *)
(* stored the verdict or not.                                              *)

C16_ComputedDeletesItemQuotaCache ==
    \A w \in Workers :
        (call[w].pc = "done" /\ call[w].path = "computed") =>
            /\ "item_quota_cache" \notin evcache
            /\ evcache = call[w].ev \ {"item_quota_cache"}

\* a computing call that found the entry and did not store its verdict
C16_Witness ==
    /\ call[1].pc = "done"
    /\ call[1].path = "computed"
    /\ ~call[1].wrote
    /\ call[1].ev = {"item_quota_cache", "other"}
    /\ evcache = {"other"}

----------------------------------------------------------------------------
(* C17.  Every deletion of a quota and every save of a capacity or scope   *)
(* edit clears the event-wide cache before the write returns: when it has  *)
(* returned, event.cache holds no entry that was stored before the write.  *)

C17_WriteClearsEventCache ==
    \A w \in Workers :
        (call[w].pc = "done" /\ call[w].op \in {"save", "delete"}) =>
            /\ evcache \cap call[w].ev = {}
            /\ evcache = {}
            /\ db # call[w].row

\* a save of a changed capacity that found both keys in event.cache and a
\* stored verdict in the row
C17_Witness ==
    /\ call[1].pc = "done"
    /\ call[1].op = "save"
    /\ call[1].ev = CacheKeys
    /\ call[1].row # NoRow
    /\ call[1].row.size # db.size
    /\ call[1].row.cached_availability_time # None

----------------------------------------------------------------------------
(* C18.  With the waitlist flag disabled the calculator never issues the   *)
(* waiting-list count query.                                               *)

C18_Issued(qs) == {qs[i] : i \in 1..Len(qs)}

C18_NoWaitlistQueryWhenDisabled ==
    (call[1].pc = "calc" /\ ~call[1].count_waitinglist) =>
        "count_waiting_list_pending" \notin C18_Issued(call[1].out.queries)

\* the calculator ran through all other counts with the flag disabled while
\* the waiting list has an entry, and with the flag enabled asks for it
C18_Witness ==
    /\ call[1].pc = "calc"
    /\ ~call[1].count_waitinglist
    /\ demand.waitlist > 0
    /\ C18_Issued(call[1].out.queries) =
           {"count_paid_orders", "count_pending_orders",
            "count_blocking_vouchers", "count_in_cart"}
    /\ "count_waiting_list_pending" \in
           C18_Issued(_availability(obj[1], demand, TRUE).queries)

----------------------------------------------------------------------------
(* C19.  For identical capacity and demand, the remaining count with the   *)
(* waitlist flag disabled is never smaller than with the flag enabled (no  *)
(* limit being larger than every number), and the state is never less      *)
(* available.                                                              *)

C19_Remaining(res) == IF res[2] = None THEN sys_maxsize ELSE res[2]

C19_DisabledNeverLessAvailable ==
    call[1].pc = "calc" =>
        LET other == _availability(obj[1], demand, ~call[1].count_waitinglist).res
            off == IF call[1].count_waitinglist THEN other ELSE call[1].out.res
            on == IF call[1].count_waitinglist THEN call[1].out.res ELSE other
        IN  /\ off[1] >= on[1]
            /\ C19_Remaining(off) >= C19_Remaining(on)

\* the waiting list makes the difference between RESERVED and OK
C19_Witness ==
    /\ call[1].pc = "calc"
    /\ call[1].count_waitinglist
    /\ call[1].out.res = <<AVAILABILITY_RESERVED, 0>>
    /\ _availability(obj[1], demand, FALSE).res[1] = AVAILABILITY_OK
    /\ _availability(obj[1], demand, FALSE).res[2] > 1

----------------------------------------------------------------------------
(* C20.  check_quotas over several quotas returns, of their verdicts, one  *)
(* with the least available state (GONE < ORDERED < RESERVED < OK) and,    *)
(* among those, the smallest remaining count, no limit being larger than   *)
(* every number: (GONE, 0) together with (OK, n) gives (GONE, 0).          *)

C20_Of(list) == {list[i] : i \in 1..Len(list)}

C20_LeastAvailableVerdict ==
    (call[1].pc = "checked" /\ call[1].availabilities # <<>>) =>
        LET all == C20_Of(call[1].availabilities)
            ret == call[1].ret
        IN  /\ ret \in all
            /\ \A v \in all :
                   /\ ret[1] <= v[1]
                   /\ ret[1] = v[1] =>
                          \/ v[2] = None
                          \/ ret[2] # None /\ ret[2] <= v[2]
            /\ (<<AVAILABILITY_GONE, 0>> \in all) => ret = <<AVAILABILITY_GONE, 0>>

\* three quotas, the first one unlimited, and the least of two counts wins
C20_Witness ==
    /\ call[1].pc = "checked"
    /\ Len(call[1].availabilities) = 3
    /\ call[1].availabilities[1] = <<AVAILABILITY_OK, None>>
    /\ call[1].availabilities[2] = <<AVAILABILITY_OK, 2>>
    /\ call[1].ret = <<AVAILABILITY_OK, 1>>

----------------------------------------------------------------------------
(* C21.  check_quotas on an item or variation with no applicable quota,    *)
(* also when every quota of it is listed in ignored_quotas, returns        *)
(* (OK, no limit) and calls availability() for no quota.                   *)

C21_Checked(c) == c.pc \in {"checked", "raised"}

C21_NoneLeft(c) == \A i \in 1..Len(c.quotas) : i \in c.ignored

C21_Unlimited(c) ==
    /\ c.pc = "checked"
    /\ c.ret = <<AVAILABILITY_OK, sys_maxsize>>
    /\ c.availabilities = <<>>

\* as stated: always
C21_NoQuotaMeansUnlimited ==
    (C21_Checked(call[1]) /\ C21_NoneLeft(call[1])) => C21_Unlimited(call[1])

\* what holds: unless the event is a series and no subevent is given, which
\* is refused with TypeError before the quotas are looked at
C21_NoQuotaMeansUnlimitedUnlessNoSubevent ==
    (C21_Checked(call[1]) /\ C21_NoneLeft(call[1])) =>
        IF call[1].subevent = None /\ call[1].has_subevents
        THEN /\ call[1].pc = "raised"
             /\ call[1].error = "TypeError"
             /\ call[1].availabilities = <<>>
        ELSE C21_Unlimited(call[1])

\* an item with variations, both of its quotas ignored
C21_Witness ==
    /\ C21_Unlimited(call[1])
    /\ call[1].on = "Item"
    /\ call[1].has_variations
    /\ Len(call[1].quotas) = 2
    /\ call[1].ignored = {1, 2}

----------------------------------------------------------------------------
(* C22.  check_quotas on an item or variation of an event series without a *)
(* subevent always fails with an error, whatever the applicable and the    *)
(* ignored quotas are, and before availability() is called for any quota.  *)

C22_NoSubeventFails ==
    (C21_Checked(call[1]) /\ call[1].subevent = None /\ call[1].has_subevents) =>
        /\ call[1].pc = "raised"
        /\ call[1].error = "TypeError"
        /\ call[1].ret = NoVerdict
        /\ call[1].availabilities = <<>>

\* a variation of a series with two quotas to check
C22_Witness ==
    /\ call[1].pc = "raised"
    /\ call[1].on = "ItemVariation"
    /\ call[1].has_subevents
    /\ call[1].subevent = None
    /\ Len(call[1].quotas) = 2
    /\ call[1].ignored = {}

----------------------------------------------------------------------------
(* C23.  Item.check_quotas on an item that has variations always fails     *)
(* with ValueError, for every set of applicable and ignored quotas, also   *)
(* when no quota is left to check.                                         *)

C23_OnItemWithVariations(c) ==
    C21_Checked(c) /\ c.on = "Item" /\ c.has_variations

----------------------------------------------------------------------------
(* C24.  An order line, cart hold or waiting-list entry is counted for a   *)
(* quota if and only if ((its item has no variations and its item is in    *)
(* the quota's item set) or its variation is in the quota's variation set) *)
(* and its subevent equals the quota's (both absent or both the same), for *)
(* each of the paid, pending, cart and waitlist counts.                    *)

C24_Counted(k) == call[1].pc = "done" /\ call[1].op = "count" /\ k \in PositionKinds

\* as stated: the item of the record has no variations
C24_MatchesItemWithoutVariations(r) ==
    /\ \/ ~has_variations(db, r.item) /\ r.item \in db.items
       \/ r.variation \in db.variations
    /\ r.subevent = db.subevent

\* what holds: the record carries no variation
C24_MatchesRecordWithoutVariation(r) ==
    /\ \/ r.variation = None /\ r.item \in db.items
       \/ r.variation \in db.variations
    /\ r.subevent = db.subevent

C25_Counted == call[1].pc = "done" /\ call[1].op = "count"

C25_NotExpired(v) == v.valid_until = None \/ v.valid_until >= call[1].now_dt

C25_InScope(v) ==
    /\ \/ v.variation = None /\ v.item \in db.items
       \/ v.variation \in db.variations
    /\ v.subevent = db.subevent

\* as stated: attached to the quota, whatever the voucher's subevent
C25_BlocksAsStated(v) ==
    v.block_quota /\ C25_NotExpired(v) /\ (C25_InScope(v) \/ v.quota = "self")

\* what holds: the subevent is the quota's for the attached vouchers too
C25_BlocksSameSubevent(v) ==
    /\ v.block_quota /\ C25_NotExpired(v)
    /\ v.subevent = db.subevent
    /\ C25_InScope(v) \/ v.quota = "self"

\* the sum, unit by unit: the unused usages of the vouchers in `which`
C25_Units(which) ==
    {<<i, u>> \in which \X (1..(MaxUsages)) :
        u <= db.vouchers[i].max_usages - db.vouchers[i].redeemed}

C26_Counted == call[1].pc = "done" /\ call[1].op = "count"

\* the cart holds of the quota's scope that have not expired
C26_Holds ==
    {i \in 1..Len(db.positions) :
        /\ db.positions[i].kind = "cart"
        /\ \/ db.positions[i].variation = None /\ db.positions[i].item \in db.items
           \/ db.positions[i].variation \in db.variations
        /\ db.positions[i].subevent = db.subevent
        /\ db.positions[i].expires >= call[1].now_dt}

\* tied to a voucher that blocks quota and is still valid
C26_Tied(i) ==
    /\ db.positions[i].voucher # None
    /\ db.vouchers[db.positions[i].voucher].block_quota
    /\ \/ db.vouchers[db.positions[i].voucher].valid_until = None
       \/ db.vouchers[db.positions[i].voucher].valid_until >= call[1].now_dt

\* the voucher of the hold is one that count_blocking_vouchers counts
C26_VoucherCounted(i) ==
    /\ db.positions[i].voucher # None
    /\ Blocks(db, db.vouchers[db.positions[i].voucher], call[1].now_dt)

C26_ExcludedOnlyWhenVoucherCounted ==
    C26_Counted =>
        /\ demand.cart = Cardinality({i \in C26_Holds : ~C26_Tied(i)})
        /\ \A i \in C26_Holds : C26_Tied(i) => C26_VoucherCounted(i)

(***************************************************************************)
(* C27.  Validation of a quota's scope rejects every scope in which a      *)
(* variation belongs to an item outside the items set, in which an item    *)
(* belongs to another event, or in which an item with variations has none  *)
(* of its variations in the variations set; the count queries of the       *)
(* calculator run on any scope and raise nothing.                          *)
(***************************************************************************)

C27_VariationOutside == \E v \in db.variations : ItemOf(v) \notin db.items

C27_ItemOfOtherEvent == \E item \in db.items : db.item_event[item] # db.event

C27_NoneOfItsVariations ==
    \E item \in db.items :
        /\ \E v \in db.itemvariations : ItemOf(v) = item
        /\ ~\E v \in db.variations : ItemOf(v) = item

C27_Rejected(op) == call[1].pc = "done" /\ call[1].op = op /\ call[1].error = "ValidationError"

C27_Passed(op) == call[1].pc = "done" /\ call[1].op = op /\ call[1].error = ""

C27_MalformedScopeRejected ==
    /\ C27_Passed("clean_variations") => ~C27_VariationOutside
    /\ C27_Passed("clean_items") => ~C27_ItemOfOtherEvent /\ ~C27_NoneOfItsVariations
    /\ call[1].pc = "done" /\ call[1].op = "count" =>
           /\ demand = Queries(db, call[1].now_dt)
           /\ "error" \notin DOMAIN call[1]

\* an item with a variation, of the right event, and none of its variations
\* in the quota: clean_items rejects it
C27_Witness ==
    /\ C27_Rejected("clean_items")
    /\ ~C27_ItemOfOtherEvent
    /\ ~C27_VariationOutside
    /\ C27_NoneOfItsVariations

(***************************************************************************)
(* C28.  The calculator issues its count queries in the fixed order paid,  *)
(* pending, blocking vouchers, cart, waiting list, and returns at the      *)
(* first step where the running remainder is zero or below: no query of a  *)
(* later step is issued after the step that exhausted the capacity.        *)
(***************************************************************************)

C28_Order ==
    <<"count_paid_orders", "count_pending_orders", "count_blocking_vouchers",
      "count_in_cart", "count_waiting_list_pending">>

C28_Kind == <<"paid", "pending", "blocking", "cart", "waitlist">>

\* the running remainder after step k
RECURSIVE C28_Remainder(_)
C28_Remainder(k) ==
    IF k = 0 THEN obj[1].size ELSE C28_Remainder(k - 1) - demand[C28_Kind[k]]

\* the steps of this call: the waiting list is a step only with the flag
C28_Steps == IF call[1].count_waitinglist THEN 1..5 ELSE 1..4

C28_FixedOrderShortCircuit ==
    call[1].pc = "calc" /\ obj[1].size # None =>
        LET queries == call[1].out.queries
            n == Len(queries)
        IN  /\ n \in C28_Steps
            /\ queries = SubSeq(C28_Order, 1, n)
            /\ \A k \in 1..(n - 1) : C28_Remainder(k) > 0
            /\ (\E k \in C28_Steps : C28_Remainder(k) <= 0) => C28_Remainder(n) <= 0
            /\ (\A k \in C28_Steps : C28_Remainder(k) > 0) => \A k \in C28_Steps : k <= n

\* the vouchers take the last unit: the carts and the waiting list, which
\* hold demand, are not asked for
C28_Witness ==
    /\ call[1].pc = "calc"
    /\ obj[1].size # None
    /\ call[1].count_waitinglist
    /\ C28_Remainder(2) > 0
    /\ C28_Remainder(3) = 0
    /\ demand.cart > 0 /\ demand.waitlist > 0
    /\ Len(call[1].out.queries) = 3

(***************************************************************************)
(* C29.  For every sequence of availability() calls with one flag and      *)
(* unchanged demand, the verdict of each call made with a call-scoped      *)
(* cache, empty at first, is the verdict of the same call in the same      *)
(* sequence made without one.                                              *)
(***************************************************************************)

C29_BothAnswered == call[1].pc = "done" /\ call[2].pc = "done"

C29_SameVerdictWithAndWithoutCache ==
    C29_BothAnswered => call[1].ret = call[2].ret

\* no call of the sequence so far, this one included, was given a now_dt
C29_AtWallClock == ~last[1].timed /\ call[1].now_arg = None

C29_SameVerdictAtWallClock ==
    C29_BothAnswered /\ C29_AtWallClock => call[1].ret = call[2].ret

\* the call with the cache is answered from the cache, the call without
\* ran the calculator and stored its verdict, which replaced another one
C29_Witness ==
    /\ C29_BothAnswered /\ C29_AtWallClock
    /\ call[1].path = "call_cache"
    /\ call[2].path = "computed" /\ call[2].wrote
    /\ StoredVerdict(obj[1]) # StoredVerdict(obj[2])
    /\ obj[1].cached_availability_time # None

(***************************************************************************)
(* C30.  Within one operation that shares a call-scoped cache and keeps    *)
(* the flag fixed, all availability() calls for the quota return the same  *)
(* verdict, whatever allow_cache each call is given and whatever demand    *)
(* changes happen in between.                                              *)
(***************************************************************************)

C30_AnsweredAfterAnother == call[1].pc = "done" /\ last[1].valid

C30_SameVerdictInOperation ==
    C30_AnsweredAfterAnother => call[1].ret = last[1].ret

\* what holds: the calls that are not answered from the stored verdict
\* return the first verdict that the operation computed
C30_SameVerdictUnlessStored ==
    C30_AnsweredAfterAnother /\ call[1].path # "stored" /\ last[1].first # NoVerdict =>
        /\ call[1].ret = last[1].first
        /\ call[1].path = "call_cache"

\* demand has changed since the first computation: a call that allows the
\* stored verdict is answered from the dict, with the first verdict, which
\* is not the verdict of the demand there is now
C30_Witness ==
    /\ C30_AnsweredAfterAnother
    /\ call[1].path = "call_cache"
    /\ call[1].allow_cache
    /\ call[1].ret = last[1].first
    /\ call[1].ret # _availability(obj[1], demand, call[1].count_waitinglist).res

(***************************************************************************)
(* C31.  Bounded staleness: when demand has changed and then stays as it   *)
(* is, every availability() call made 120 seconds or more after the change *)
(* returns the verdict of the demand there is, whether it is answered from *)
(* the stored verdict, from the call-scoped cache or by a computation.     *)
(***************************************************************************)

C31_AnsweredLate ==
    /\ call[1].pc = "done"
    /\ call[1].op = "availability"
    /\ call[1].at - last[1].changed >= StaleWindow

C31_Current == _availability(call[1].entry, demand, call[1].count_waitinglist).res

C31_CurrentAfterWindow == C31_AnsweredLate => call[1].ret = C31_Current

\* what holds: calls that are not answered from the call-scoped cache, when
\* no call before was given a now_dt
C31_CurrentAfterWindowUnlessCallCache ==
    C31_AnsweredLate /\ call[1].path # "call_cache" /\ ~last[1].timed =>
        call[1].ret = C31_Current

\* a call answered from the stored verdict 120 seconds after the change:
\* the verdict was stored after the change
C31_Witness ==
    /\ C31_AnsweredLate
    /\ ~last[1].timed
    /\ call[1].path = "stored"
    /\ last[1].changed < call[1].entry.cached_availability_time
    /\ TotalDemand(demand) > 0
    /\ call[1].ret = C31_Current

(***************************************************************************)
(* C32.  Every verdict that availability() returns or that is stored with  *)
(* the quota is well formed: its state is GONE, ORDERED, RESERVED or OK; a *)
(* state other than OK comes with 0; OK comes with no number (unlimited)   *)
(* or a number of at least 1; and with a finite size the number is never   *)
(* negative and never above the size.                                      *)
(***************************************************************************)

C32_WellFormed(v, size) ==
    /\ v[1] \in {AVAILABILITY_GONE, AVAILABILITY_ORDERED, AVAILABILITY_RESERVED,
                  AVAILABILITY_OK}
    /\ v[1] # AVAILABILITY_OK => v[2] = 0
    /\ v[1] = AVAILABILITY_OK => v[2] = None \/ v[2] >= 1
    /\ size # None /\ v[2] # None => v[2] >= 0 /\ v[2] <= size

C32_VerdictsWellFormed ==
    /\ call[1].pc = "done" => C32_WellFormed(call[1].ret, obj[1].size)
    /\ obj[1].cached_availability_time # None =>
           C32_WellFormed(StoredVerdict(obj[1]), obj[1].size)
    /\ db.cached_availability_time # None => C32_WellFormed(StoredVerdict(db), db.size)

(***************************************************************************)
(* C33.  The verdict is monotone in demand: with a finite size and the     *)
(* flag fixed, raising one of the paid, pending, blocking, cart or waiting *)
(* list counts while the others stay equal never gives a more available    *)
(* state and never a larger number.                                        *)
(***************************************************************************)

C33_Calculated == call[1].pc = "calc" /\ obj[1].size # None

\* the verdict when count k is n and the others are as they are
C33_Raised(k, n) ==
    _availability(obj[1], [demand EXCEPT ![k] = n], call[1].count_waitinglist).res

C33_MonotoneInDemand ==
    C33_Calculated =>
        \A k \in DemandKinds : \A n \in (demand[k] + 1)..(CalcMaxCount + 1) :
            /\ C33_Raised(k, n)[1] <= call[1].out.res[1]
            /\ C33_Raised(k, n)[2] <= call[1].out.res[2]

\* one more pending order turns RESERVED into ORDERED
C33_Witness ==
    /\ C33_Calculated
    /\ call[1].out.res[1] = AVAILABILITY_RESERVED
    /\ demand.paid > 0
    /\ C33_Raised("pending", demand.pending + 1)[1] = AVAILABILITY_ORDERED

(***************************************************************************)
(* C34.  In every reachable state, also after rebuild_cache() and after a  *)
(* call that failed part-way, the quota's cached_availability_time is set  *)
(* only if its cached_availability_state is set, so a call answered from   *)
(* the stored verdict never returns an absent state.                       *)
(***************************************************************************)

C34_TimeOnlyWithState(self) ==
    self.cached_availability_time # None => self.cached_availability_state # None

C34_StoredVerdictNeverAbsent ==
    /\ \A w \in Workers : C34_TimeOnlyWithState(obj[w])
    /\ C34_TimeOnlyWithState(db)
    /\ call[1].pc = "done" /\ call[1].path = "stored" => call[1].ret[1] # None

\* a rebuild failed in a query: the object is cleared, the row still holds
\* the verdict stored before
C34_Witness ==
    /\ call[1].pc = "raised"
    /\ call[1].op = "rebuild_cache"
    /\ db.cached_availability_time # None
    /\ obj[1].cached_availability_time = None
    /\ obj[1].cached_availability_state = None

TypeOK == clock \in Times

=============================================================================
